---------------------------- MODULE Spec2Model ----------------------------
(***************************************************************************)
(* Model of the C-ABI boundary layer of the Brotli compression library     *)
(* (src/rust/src/lib.rs).                                                  *)
(*                                                                         *)
(* A caller owns one raw input buffer and one pair of tuning parameters    *)
(* and drives the exported operations in any order.  The heap holds the    *)
(* allocations that cross the boundary (libc::malloc buffers and           *)
(* CString::into_raw strings).  Rust-owned temporaries (Vec, String) are   *)
(* dropped before an operation returns and never cross the boundary.       *)
(***************************************************************************)
EXTENDS Integers, Sequences, FiniteSets, TLC

(***************************************************************************)
(* Bounds of the model.                                                    *)
(***************************************************************************)
\* longest caller input buffer, in bytes
MaxLen == 2
\* boundary allocations a caller session may request
MaxAllocs == 2
\* largest iteration count handed to benchmark_compression
MaxIter == 1
\* half-width of the window of sizes examined around each size bracket edge
EdgeWidth == 3
\* estimate_compressed_size is examined for every size 0..MaxEstSize
MaxEstSize == 200

(***************************************************************************)
(* Byte values a caller buffer is drawn from: NUL, ASCII 'A', the UTF-8     *)
(* lead byte 0xC3 and the continuation byte 0xA9 (0xC3 0xA9 is U+00E9; a   *)
(* lone 0xC3 or 0xA9 is ill-formed).                                       *)
(***************************************************************************)
Bytes == {0, 65, 195, 169}

RECURSIVE SeqsUpTo(_, _)
SeqsUpTo(S, n) ==
    IF n = 0 THEN {<< >>}
    ELSE LET shorter == SeqsUpTo(S, n - 1)
         IN  shorter \cup {Append(s, x) : s \in {t \in shorter : Len(t) = n - 1}, x \in S}

Inputs == SeqsUpTo(Bytes, MaxLen)

\* caller-supplied (quality, window_size) pairs (u32): the pair of the tests,
\* and pairs out of range on either side
Params == {<<6, 22>>, <<255, 1>>, <<11, 25>>}

Min(a, b) == IF a <= b THEN a ELSE b
Max(a, b) == IF a >= b THEN a ELSE b

(***************************************************************************)
(* The external codec.  Its stream is abstracted to a frame whose first    *)
(* two bytes depend on the encoder parameters (lgwin, quality) and whose   *)
(* remainder carries the payload; the decoder rejects anything that is     *)
(* not such a frame.  Reading from an in-memory slice never fails, so the  *)
(* encoder always returns Ok.                                              *)
(***************************************************************************)
BrotliEncode(input, quality, lgwin) == <<lgwin, quality>> \o input

BrotliWellFormed(stream) ==
    /\ Len(stream) >= 2
    /\ stream[1] \in 10..24
    /\ stream[2] \in 0..11

BrotliDecode(stream) == SubSeq(stream, 3, Len(stream))

\* fn compress_internal(input, quality, window_size) -> Result<Vec<u8>, io::Error>
compress_internal(input, quality, window_size) ==
    [ok |-> TRUE, bytes |-> BrotliEncode(input, quality, window_size),
     params |-> [quality |-> quality, lgwin |-> window_size]]

\* fn decompress_internal(input) -> Result<Vec<u8>, io::Error>
decompress_internal(input) ==
    IF BrotliWellFormed(input)
    THEN [ok |-> TRUE, bytes |-> BrotliDecode(input)]
    ELSE [ok |-> FALSE, bytes |-> << >>]

(***************************************************************************)
(* UTF-8 validation as done by CStr::to_str and String::from_utf8.         *)
(***************************************************************************)
IsCont(b) == b \in 128..191

RECURSIVE IsUtf8(_)
IsUtf8(s) ==
    IF s = << >> THEN TRUE
    ELSE LET b == s[1]
             n == Len(s)
             need == IF b \in 0..127 THEN 1
                     ELSE IF b \in 194..223 THEN 2
                     ELSE IF b \in 224..239 THEN 3
                     ELSE IF b \in 240..244 THEN 4
                     ELSE 0
             second == IF b = 224 THEN 160..191
                       ELSE IF b = 237 THEN 128..159
                       ELSE IF b = 240 THEN 144..191
                       ELSE IF b = 244 THEN 128..143
                       ELSE 128..191
         IN  /\ need > 0
             /\ n >= need
             /\ need >= 2 => s[2] \in second
             /\ \A i \in 3..need : IsCont(s[i])
             /\ IsUtf8(SubSeq(s, need + 1, n))

\* seeded fault: the view keeps the terminator (to_bytes_with_nul)
RECURSIVE CStrBytesWithNul(_)
CStrBytesWithNul(mem) ==
    IF mem = << >> THEN << >>
    ELSE IF mem[1] = 0 THEN <<0>>
    ELSE <<mem[1]>> \o CStrBytesWithNul(Tail(mem))

\* CStr::from_ptr: the bytes before the first NUL of the memory at the pointer
RECURSIVE CStrBytes(_)
CStrBytes(mem) ==
    IF mem = << >> \/ mem[1] = 0 THEN << >>
    ELSE <<mem[1]>> \o CStrBytes(Tail(mem))

\* CString::new fails on an interior NUL byte
HasNul(s) == \E i \in 1..Len(s) : s[i] = 0

\* seeded fault: the copy stops one byte short
copy_one_short(src, n) == SubSeq(src, 1, n - 1)

\* ptr::copy_nonoverlapping(src, dst, n) into a fresh buffer of n bytes
copy_nonoverlapping(src, n) == SubSeq(src, 1, n)


(***************************************************************************)
(* Results of a boundary call.  null: the call returns the null pointer;   *)
(* buf: the bytes of the returned allocation; wrote/len: whether and what   *)
(* the call stored through output_len; codec: the (quality, lgwin) pairs    *)
(* the encoder was configured with; decodes: decoder invocations; mallocs:     *)
(* allocation requests made through libc::malloc or CString.               *)
(***************************************************************************)
NullReturn ==
    [null |-> TRUE, buf |-> << >>, wrote |-> FALSE, len |-> 0,
     codec |-> << >>, decodes |-> 0, mallocs |-> 0]

\* let quality = quality.min(11);
ClampQuality(quality) == Min(quality, 11)

\* seeded fault: only the upper end of the window is clamped
ClampWindowUpperOnly(window_size) == Min(window_size, 24)

\* let window_size = window_size.clamp(10, 24);
ClampWindow(window_size) == Max(10, Min(window_size, 24))

\* the Ok arm shared by compress and decompress: store the length, malloc, copy
ReturnBuffer(bytes, mallocOk) ==
    [null |-> ~mallocOk,
     buf |-> IF mallocOk THEN copy_nonoverlapping(bytes, Len(bytes)) ELSE << >>,
     wrote |-> TRUE, len |-> Len(bytes),
     codec |-> << >>, decodes |-> 0, mallocs |-> 1]

\* seeded fault: compress without the null check of output_len
compress_unchecked_out(inNull, input, quality, window_size, outNull, mallocOk) ==
    IF inNull THEN NullReturn
    ELSE LET r == compress_internal(input, ClampQuality(quality), ClampWindow(window_size))
         IN  [ReturnBuffer(r.bytes, mallocOk) EXCEPT !.codec = <<r.params>>]

\* pub extern "C" fn compress(input_data, input_len, quality, window_size, output_len)
compress(inNull, input, quality, window_size, outNull, mallocOk) ==
    IF inNull \/ outNull THEN NullReturn
    ELSE LET q == ClampQuality(quality)
             w == ClampWindow(window_size)
             r == compress_internal(input, q, w)
         IN  IF r.ok
             THEN [ReturnBuffer(r.bytes, mallocOk) EXCEPT !.codec = <<r.params>>]
             ELSE [NullReturn EXCEPT !.codec = <<r.params>>]

\* pub extern "C" fn decompress(input_data, input_len, output_len)
decompress(inNull, input, outNull, mallocOk) ==
    IF inNull \/ outNull THEN NullReturn
    ELSE LET r == decompress_internal(input)
         IN  IF r.ok
             THEN [ReturnBuffer(r.bytes, mallocOk) EXCEPT !.decodes = 1]
             ELSE [NullReturn EXCEPT !.decodes = 1]

\* seeded fault: compress_string hands quality and window_size over swapped
compress_string_swapped(inNull, mem, quality, window_size, outNull, mallocOk) ==
    IF inNull \/ outNull THEN NullReturn
    ELSE IF IsUtf8(CStrBytes(mem))
    THEN compress(FALSE, CStrBytes(mem), window_size, quality, outNull, mallocOk)
    ELSE NullReturn

\* pub extern "C" fn compress_string(input, quality, window_size, output_len)
\* mem is the memory at the pointer, up to and including its terminator
compress_string(inNull, mem, quality, window_size, outNull, mallocOk) ==
    IF inNull \/ outNull THEN NullReturn
    ELSE LET input_str == CStrBytes(mem)
         IN  IF IsUtf8(input_str)
             THEN compress(FALSE, input_str, quality, window_size, outNull, mallocOk)
             ELSE NullReturn

\* seeded fault: the text is built without validation (from_utf8_unchecked)
decompress_to_string_unchecked(inNull, input) ==
    IF inNull THEN NullReturn
    ELSE LET r == decompress_internal(input)
         IN  IF ~r.ok \/ HasNul(r.bytes) THEN [NullReturn EXCEPT !.decodes = 1]
             ELSE [null |-> FALSE, buf |-> r.bytes \o <<0>>, wrote |-> FALSE, len |-> 0,
                   codec |-> << >>, decodes |-> 1, mallocs |-> 1]

\* pub extern "C" fn decompress_to_string(input_data, input_len)
\* (the CString comes from Rust's allocator, which aborts instead of returning null)
decompress_to_string(inNull, input) ==
    IF inNull THEN NullReturn
    ELSE LET r == decompress_internal(input)
         IN  IF ~r.ok THEN [NullReturn EXCEPT !.decodes = 1]
             ELSE IF ~IsUtf8(r.bytes) THEN [NullReturn EXCEPT !.decodes = 1]
             ELSE IF HasNul(r.bytes) THEN [NullReturn EXCEPT !.decodes = 1]
             ELSE [null |-> FALSE, buf |-> r.bytes \o <<0>>, wrote |-> FALSE, len |-> 0,
                   codec |-> << >>, decodes |-> 1, mallocs |-> 1]

\* pub extern "C" fn benchmark_compression(input_data, input_len, iterations)
\* sentinel: the call returns -1.0; otherwise the mean elapsed time
benchmark_compression(inNull, input, iterations) ==
    IF inNull \/ iterations = 0
    THEN [sentinel |-> TRUE, codec |-> << >>]
    ELSE [sentinel |-> FALSE,
          codec |-> [i \in 1..iterations |-> compress_internal(input, 6, 22).params]]

\* libc::free(ptr) / drop(CString::from_raw(s)) of one allocation of heap h:
\* the allocation is gone, and only the number of times it was freed is kept
Release(h, ptr) ==
    [h EXCEPT ![ptr] = [kind |-> "freed", live |-> FALSE, data |-> << >>,
                        frees |-> @.frees + 1, origin |-> "none", src |-> 0]]

\* seeded fault: free_memory returns without freeing
free_memory_leak(h, ptr) == h

\* pub extern "C" fn free_memory(ptr)
free_memory(h, ptr) == IF ptr # 0 THEN Release(h, ptr) ELSE h

\* pub extern "C" fn free_string(s)
free_string(h, s) == IF s # 0 THEN Release(h, s) ELSE h

(***************************************************************************)
(* IEEE-754 binary64 arithmetic of estimate_compressed_size, done exactly  *)
(* on little-endian digit sequences.  A ratio is the double nearest to the *)
(* decimal literal: limbs (base 2^16) of its 53-bit significand m and the  *)
(* exponent exp, with value m / 2^exp.                                     *)
(***************************************************************************)
F64_0_7 == [limbs |-> <<26214, 26214, 26214, 22>>, exp |-> 53]
F64_0_5 == [limbs |-> <<0, 0, 0, 16>>, exp |-> 53]
F64_0_4 == [limbs |-> <<39322, 39321, 39321, 25>>, exp |-> 54]
F64_0_3 == [limbs |-> <<13107, 13107, 13107, 19>>, exp |-> 54]

\* n times the significand, exactly, as base-2^16 limbs
RECURSIVE MulLimbs(_, _, _)
MulLimbs(n, limbs, carry) ==
    IF limbs = << >>
    THEN IF carry = 0 THEN << >>
         ELSE <<carry % 65536>> \o MulLimbs(n, << >>, carry \div 65536)
    ELSE LET t == n * limbs[1] + carry
         IN  <<t % 65536>> \o MulLimbs(n, Tail(limbs), t \div 65536)

RECURSIVE NatToBits(_, _)
NatToBits(x, width) ==
    IF width = 0 THEN << >> ELSE <<x % 2>> \o NatToBits(x \div 2, width - 1)

RECURSIVE LimbsToBits(_)
LimbsToBits(limbs) ==
    IF limbs = << >> THEN << >>
    ELSE NatToBits(limbs[1], 16) \o LimbsToBits(Tail(limbs))

RECURSIVE BitsToNat(_)
BitsToNat(bits) ==
    IF bits = << >> THEN 0 ELSE bits[1] + 2 * BitsToNat(Tail(bits))

RECURSIVE BitLen(_)
BitLen(bits) ==
    IF bits = << >> THEN 0
    ELSE IF bits[Len(bits)] = 1 THEN Len(bits)
    ELSE BitLen(SubSeq(bits, 1, Len(bits) - 1))

RECURSIVE BitsInc(_)
BitsInc(bits) ==
    IF bits = << >> THEN <<1>>
    ELSE IF bits[1] = 0 THEN <<1>> \o Tail(bits)
    ELSE <<0>> \o BitsInc(Tail(bits))

\* round an exact product to a 53-bit significand, ties to even
RoundF64(bits) ==
    LET d == BitLen(bits) - 53
    IN  IF d <= 0 THEN bits
        ELSE LET kept == SubSeq(bits, d + 1, Len(bits))
                 guard == bits[d]
                 sticky == \E i \in 1..(d - 1) : bits[i] = 1
                 up == guard = 1 /\ (sticky \/ kept[1] = 1)
             IN  [i \in 1..d |-> 0] \o (IF up THEN BitsInc(kept) ELSE kept)

\* ((input_size as f64) * compression_ratio) as usize
F64MulToUsize(input_size, ratio) ==
    LET product == RoundF64(LimbsToBits(MulLimbs(input_size, ratio.limbs, 0)))
    IN  BitsToNat(SubSeq(product, ratio.exp + 1, Len(product)))

\* seeded fault: the first bracket reaches quality 4
estimate_wrong_bracket(input_size, q) ==
    F64MulToUsize(input_size, IF q \in 0..4 THEN F64_0_7
                              ELSE IF q \in 5..6 THEN F64_0_5
                              ELSE IF q \in 7..9 THEN F64_0_4
                              ELSE F64_0_3)

\* pub extern "C" fn estimate_compressed_size(input_size, quality)
estimate_compressed_size(input_size, q) ==
    LET compression_ratio == IF q \in 0..3 THEN F64_0_7
                             ELSE IF q \in 4..6 THEN F64_0_5
                             ELSE IF q \in 7..9 THEN F64_0_4
                             ELSE F64_0_3
    IN  F64MulToUsize(input_size, compression_ratio)

\* seeded fault: the first bracket ends one short of 1024
get_recommended_quality_off(input_size) ==
    IF input_size \in 0..1023 THEN 4
    ELSE IF input_size \in 1024..10240 THEN 6
    ELSE IF input_size \in 10241..102400 THEN 8
    ELSE 10

\* pub extern "C" fn get_recommended_quality(input_size)
get_recommended_quality(input_size) ==
    IF input_size \in 0..1024 THEN 4
    ELSE IF input_size \in 1025..10240 THEN 6
    ELSE IF input_size \in 10241..102400 THEN 8
    ELSE 10

(***************************************************************************)
(* The caller session.                                                     *)
(*   input, quality, window_size: the caller's buffer and parameters       *)
(*   heap: the boundary allocations, by pointer (0 is the null pointer)    *)
(*   nextPtr: the next fresh pointer                                       *)
(*   held: the non-null pointers returned and not yet released             *)
(*   last: the last boundary call and what it did                          *)
(*   adv: the last advisory (pure) call and the one before it              *)
(***************************************************************************)
VARIABLES input, quality, window_size, heap, nextPtr, held, last, adv

vars == <<input, quality, window_size, heap, nextPtr, held, last, adv>>

Ptrs == 1..MaxAllocs

Unused ==
    [kind |-> "unused", live |-> FALSE, data |-> << >>, frees |-> 0,
     origin |-> "none", src |-> 0]

Live == {p \in Ptrs : heap[p].live}

\* what the caller stores in its out-length variable before a call: a value
\* no call writes (the longest stream is a frame around MaxLen bytes)
SlotUnset == MaxLen + 3

NoCall ==
    [op |-> "none", inNull |-> FALSE, outNull |-> FALSE, arg |-> 0,
     mallocFailed |-> FALSE, ret |-> 0, wrote |-> FALSE, slot |-> SlotUnset,
     liveBefore |-> {}, codec |-> << >>, decodes |-> 0, mallocs |-> 0,
     iterations |-> 0, sentinel |-> FALSE]

NoAdvice == [req |-> "none", fn |-> "none", size |-> 0, quality |-> 0, result |-> 0,
             size2 |-> 0, result2 |-> 0]

SessionInit ==
    /\ input \in Inputs
    /\ \E p \in Params : quality = p[1] /\ window_size = p[2]
    /\ heap = [p \in Ptrs |-> Unused]
    /\ nextPtr = 1
    /\ held = {}
    /\ last = NoCall

Init == SessionInit /\ adv = NoAdvice

\* the pointer arguments a caller passes: null (arg = -1), its own input
\* buffer (arg = 0), or a buffer it holds (arg = the pointer)
HeldBuffers == {p \in held : heap[p].kind = "malloc"}
HeldStrings == {p \in held : heap[p].kind = "cstring"}
ArgBytes(arg) == IF arg > 0 THEN heap[arg].data ELSE input

\* a call that returns result r: a non-null result becomes a fresh allocation
\* owned by the caller, and a written length lands in the caller's variable
\* (mallocOk is the allocator's answer; it is only drawn for a call that asks)
Return(op, kind, inNull, outNull, arg, mallocOk, r) ==
    /\ r.null \/ nextPtr <= MaxAllocs
    /\ r.mallocs = 0 => mallocOk
    /\ heap' = IF r.null THEN heap
               ELSE [heap EXCEPT ![nextPtr] =
                        [kind |-> kind, live |-> TRUE, data |-> r.buf, frees |-> 0,
                         origin |-> op, src |-> arg]]
    /\ nextPtr' = IF r.null THEN nextPtr ELSE nextPtr + 1
    /\ held' = IF r.null THEN held ELSE held \cup {nextPtr}
    /\ last' = [op |-> op, inNull |-> inNull, outNull |-> outNull, arg |-> arg,
                mallocFailed |-> ~mallocOk,
                ret |-> IF r.null THEN 0 ELSE nextPtr,
                wrote |-> r.wrote, slot |-> IF r.wrote THEN r.len ELSE SlotUnset,
                liveBefore |-> Live,
                codec |-> r.codec, decodes |-> r.decodes, mallocs |-> r.mallocs,
                iterations |-> 0, sentinel |-> FALSE]
    /\ UNCHANGED <<input, quality, window_size, adv>>

CallCompress ==
    \E inNull \in BOOLEAN, outNull \in BOOLEAN, mallocOk \in BOOLEAN :
        Return("compress", "malloc", inNull, outNull, IF inNull THEN -1 ELSE 0, mallocOk,
               compress(inNull, input, quality, window_size, outNull, mallocOk))

CallCompressString ==
    \E inNull \in BOOLEAN, outNull \in BOOLEAN, mallocOk \in BOOLEAN :
        Return("compress_string", "malloc", inNull, outNull, IF inNull THEN -1 ELSE 0,
               mallocOk,
               compress_string(inNull, input \o <<0>>, quality, window_size, outNull,
                               mallocOk))

CallDecompress ==
    \E arg \in {-1, 0} \cup HeldBuffers, outNull \in BOOLEAN, mallocOk \in BOOLEAN :
        Return("decompress", "malloc", arg = -1, outNull, arg, mallocOk,
               decompress(arg = -1, ArgBytes(arg), outNull, mallocOk))

CallDecompressToString ==
    \E arg \in {-1, 0} \cup HeldBuffers :
        Return("decompress_to_string", "cstring", arg = -1, FALSE, arg, TRUE,
               decompress_to_string(arg = -1, ArgBytes(arg)))

Released(op, ptr, h) ==
    /\ heap' = h
    /\ held' = held \ {ptr}
    /\ last' = [NoCall EXCEPT !.op = op, !.inNull = (ptr = 0), !.arg = ptr,
                              !.liveBefore = Live]
    /\ UNCHANGED <<input, quality, window_size, nextPtr, adv>>

CallFreeMemory ==
    \E ptr \in {0} \cup HeldBuffers : Released("free_memory", ptr, free_memory(heap, ptr))

CallFreeString ==
    \E s \in {0} \cup HeldStrings : Released("free_string", s, free_string(heap, s))

CallBenchmark ==
    \E inNull \in BOOLEAN, iterations \in 0..MaxIter :
        LET r == benchmark_compression(inNull, input, iterations)
        IN  /\ last' = [NoCall EXCEPT !.op = "benchmark_compression", !.inNull = inNull,
                                      !.arg = IF inNull THEN -1 ELSE 0,
                                      !.liveBefore = Live,
                                      !.codec = r.codec, !.iterations = iterations,
                                      !.sentinel = r.sentinel]
            /\ UNCHANGED <<input, quality, window_size, heap, nextPtr, held, adv>>

Next ==
    \/ CallCompress
    \/ CallCompressString
    \/ CallDecompress
    \/ CallDecompressToString
    \/ CallFreeMemory
    \/ CallFreeString
    \/ CallBenchmark

Spec == Init /\ [][Next]_vars

(***************************************************************************)
(* The advisory functions.  The caller's request is drawn at the start:    *)
(* two sizes for get_recommended_quality (around every bracket edge, and   *)
(* the sizes of the tests), or a size and a quality for                    *)
(* estimate_compressed_size; the call then fills in the results.           *)
(***************************************************************************)
Edges == {1024, 10240, 102400}
Sizes ==
    {0, 500, 5000, 50000, 500000}
        \cup UNION {(e - EdgeWidth)..(e + EdgeWidth) : e \in Edges}
EstSizes == 0..MaxEstSize \cup {1000}
EstQualities == 0..12 \cup {255}

Requests ==
    [req : {"get_recommended_quality"}, fn : {"none"}, size : Sizes, quality : {0},
     result : {0}, size2 : Sizes, result2 : {0}]
        \cup
    [req : {"estimate_compressed_size"}, fn : {"none"}, size : EstSizes,
     quality : EstQualities, result : {0}, size2 : {0}, result2 : {0}]

AdvisoryInit ==
    /\ input = << >>
    /\ quality = 6
    /\ window_size = 22
    /\ heap = [p \in Ptrs |-> Unused]
    /\ nextPtr = 1
    /\ held = {}
    /\ last = NoCall
    /\ adv \in Requests

CallRecommendedQuality ==
    /\ adv.fn = "none"
    /\ adv.req = "get_recommended_quality"
    /\ adv' = [adv EXCEPT !.fn = "get_recommended_quality",
                          !.result = get_recommended_quality(adv.size),
                          !.result2 = get_recommended_quality(adv.size2)]
    /\ UNCHANGED <<input, quality, window_size, heap, nextPtr, held, last>>

CallEstimate ==
    /\ adv.fn = "none"
    /\ adv.req = "estimate_compressed_size"
    /\ adv' = [adv EXCEPT !.fn = "estimate_compressed_size",
                          !.result = estimate_compressed_size(adv.size, adv.quality)]
    /\ UNCHANGED <<input, quality, window_size, heap, nextPtr, held, last>>

AdvisoryNext == CallRecommendedQuality \/ CallEstimate

AdvisorySpec == AdvisoryInit /\ [][AdvisoryNext]_vars

(***************************************************************************)
(* Properties.                                                             *)
(***************************************************************************)
AllocatingOps == {"compress", "decompress", "compress_string", "decompress_to_string"}

\* what the caller's out-length variable holds after a call with result r
SlotAfter(r) == IF r.wrote THEN r.len ELSE SlotUnset

\* the bytes of s before its first NUL (all of s when it has none)
BeforeFirstNul(s) ==
    LET nuls == {i \in 1..Len(s) : s[i] = 0}
        stop == IF nuls = {} THEN Len(s) + 1
                ELSE CHOOSE i \in nuls : \A j \in nuls : i <= j
    IN  SubSeq(s, 1, stop - 1)

\* the caller's buffer is well-formed text without an embedded NUL
TextInput == IsUtf8(input) /\ ~HasNul(input)

\* the result the last call returned is the result r
SameResult(r) ==
    /\ (last.ret = 0) = r.null
    /\ last.wrote = r.wrote
    /\ last.slot = SlotAfter(r)
    /\ last.ret # 0 => heap[last.ret].data = r.buf

\* C1 as stated: compress of any bytes with any quality and window returns a
\* non-null buffer with its length written, and decompress of that buffer returns
\* a non-null buffer whose written length and contents are the original bytes.
C1_RoundTrip ==
    /\ (last.op = "compress" /\ ~last.inNull /\ ~last.outNull)
          => /\ last.ret # 0
             /\ last.wrote
             /\ last.slot = Len(heap[last.ret].data)
    /\ (last.op = "decompress" /\ last.arg > 0 /\ ~last.outNull
           /\ heap[last.arg].origin = "compress")
          => /\ last.ret # 0
             /\ last.wrote
             /\ last.slot = Len(input)
             /\ heap[last.ret].data = input

\* C1 amended: the round trip holds whenever the call's malloc succeeds; when
\* it fails the call returns null.
C1_RoundTripIfAllocated ==
    /\ (last.op = "compress" /\ ~last.inNull /\ ~last.outNull)
          => IF last.mallocFailed THEN last.ret = 0
             ELSE /\ last.ret # 0
                  /\ last.wrote
                  /\ last.slot = Len(heap[last.ret].data)
    /\ (last.op = "decompress" /\ last.arg > 0 /\ ~last.outNull
           /\ heap[last.arg].origin = "compress")
          => IF last.mallocFailed THEN last.ret = 0
             ELSE /\ last.ret # 0
                  /\ last.wrote
                  /\ last.slot = Len(input)
                  /\ heap[last.ret].data = input

\* a binary (non-text) buffer compressed with out-of-range parameters has been
\* decompressed back
C1_Witness ==
    /\ last.op = "decompress"
    /\ last.arg > 0
    /\ heap[last.arg].origin = "compress"
    /\ last.ret # 0
    /\ ~IsUtf8(input)
    /\ Len(input) = MaxLen
    /\ quality > 11
    /\ window_size < 10

\* C2: with every non-null result released once through its own release
\* operation, every boundary allocation is freed exactly once and none outlives
\* its release; a call that returns null leaves no allocation behind; releasing
\* the null pointer changes nothing.
C2_NoLeakNoDoubleFree ==
    /\ Live = held
    /\ \A p \in Ptrs :
          /\ p < nextPtr => heap[p].frees = (IF p \in held THEN 0 ELSE 1)
          /\ p >= nextPtr => heap[p] = Unused
    /\ (last.op \in AllocatingOps /\ last.ret = 0) => Live = last.liveBefore
    /\ (last.op \in AllocatingOps /\ last.ret # 0)
          => Live = last.liveBefore \cup {last.ret} /\ last.ret \notin last.liveBefore
    /\ (last.op \in {"free_memory", "free_string"})
          => Live = last.liveBefore \ {last.arg}

\* a buffer and a string have both been allocated and both been released
C2_Witness ==
    /\ last.op = "free_string"
    /\ last.arg # 0
    /\ held = {}
    /\ nextPtr = 3
    /\ heap[1].frees = 1
    /\ heap[2].frees = 1

\* C3 as stated: for compress and decompress the out-length variable is
\* written exactly by the calls that return a non-null buffer; a call that
\* returns null leaves it as the caller set it.
C3_NullLeavesLengthUntouched ==
    last.op \in {"compress", "decompress"}
        => /\ last.wrote <=> last.ret # 0
           /\ last.ret = 0 => last.slot = SlotUnset

\* C4: a null required pointer (or a zero iteration count for the benchmark)
\* yields the failure sentinel with no codec invocation, no allocation and no
\* write of the out-length variable.
C4_NullSafety ==
    /\ (last.op \in AllocatingOps /\ (last.inNull \/ last.outNull))
          => /\ last.ret = 0
             /\ last.codec = << >>
             /\ last.decodes = 0
             /\ last.mallocs = 0
             /\ ~last.wrote
             /\ last.slot = SlotUnset
             /\ Live = last.liveBefore
    /\ (last.op = "benchmark_compression" /\ (last.inNull \/ last.iterations = 0))
          => /\ last.sentinel
             /\ last.codec = << >>
             /\ Live = last.liveBefore

\* compress was called with a buffer but no out-length variable
C4_Witness ==
    /\ last.op = "compress"
    /\ ~last.inNull
    /\ last.outNull
    /\ last.ret = 0

\* C5: compress and compress_string configure the codec with exactly
\* min(q, 11) and max(10, min(w, 24)), reject no call because of q or w, and
\* return what compress returns for the clamped pair.
C5_Clamping ==
    last.op \in {"compress", "compress_string"} =>
        LET q == IF quality < 11 THEN quality ELSE 11
            w == IF window_size < 10 THEN 10
                 ELSE IF window_size > 24 THEN 24 ELSE window_size
            view == IF last.op = "compress" THEN input ELSE BeforeFirstNul(input)
            accepted == /\ ~last.inNull
                        /\ ~last.outNull
                        /\ last.op = "compress_string" => IsUtf8(view)
        IN  /\ \A i \in 1..Len(last.codec) :
                  /\ last.codec[i] = [quality |-> q, lgwin |-> w]
                  /\ last.codec[i].quality \in 0..11
                  /\ last.codec[i].lgwin \in 10..24
            /\ (~last.inNull /\ ~last.outNull /\ last.op = "compress")
                  => Len(last.codec) = 1
            /\ accepted
                  => /\ Len(last.codec) = 1
                     /\ last.ret = 0 <=> last.mallocFailed
                     /\ SameResult(compress(FALSE, view, q, w, FALSE, ~last.mallocFailed))

\* compress succeeded with quality 255 and window 1
C5_Witness ==
    /\ last.op = "compress"
    /\ last.ret # 0
    /\ quality = 255
    /\ window_size = 1
    /\ last.codec = <<[quality |-> 11, lgwin |-> 10]>>

\* C6 as stated: compress_string of any text without embedded NUL returns a
\* non-null buffer with its length written, and decompress_to_string of that
\* buffer returns the text, null-terminated.
C6_TextRoundTrip ==
    /\ (last.op = "compress_string" /\ ~last.inNull /\ ~last.outNull /\ TextInput)
          => /\ last.ret # 0
             /\ last.wrote
             /\ last.slot = Len(heap[last.ret].data)
    /\ (last.op = "decompress_to_string" /\ last.arg > 0 /\ TextInput
           /\ heap[last.arg].origin = "compress_string")
          => /\ last.ret # 0
             /\ heap[last.ret].data = input \o <<0>>

\* C6 amended: the text round trip holds whenever compress_string's malloc
\* succeeds; when it fails compress_string returns null.
C6_TextRoundTripIfAllocated ==
    /\ (last.op = "compress_string" /\ ~last.inNull /\ ~last.outNull /\ TextInput)
          => IF last.mallocFailed THEN last.ret = 0
             ELSE /\ last.ret # 0
                  /\ last.wrote
                  /\ last.slot = Len(heap[last.ret].data)
    /\ (last.op = "decompress_to_string" /\ last.arg > 0 /\ TextInput
           /\ heap[last.arg].origin = "compress_string")
          => /\ last.ret # 0
             /\ heap[last.ret].data = input \o <<0>>

\* a text with a multi-byte character went through compress_string and back
C6_Witness ==
    /\ last.op = "decompress_to_string"
    /\ last.arg > 0
    /\ heap[last.arg].origin = "compress_string"
    /\ last.ret # 0
    /\ input = <<195, 169>>

C8_TextResult ==
    (last.op = "decompress_to_string" /\ ~last.inNull) =>
        LET r == decompress_internal(ArgBytes(last.arg))
        IN  IF ~r.ok \/ ~IsUtf8(r.bytes) THEN last.ret = 0
            ELSE last.ret # 0 /\ heap[last.ret].data = r.bytes \o <<0>>

\* C8 amended: it also returns null when the payload contains a NUL byte.
C8_TextResultUnlessNul ==
    (last.op = "decompress_to_string" /\ ~last.inNull) =>
        LET r == decompress_internal(ArgBytes(last.arg))
        IN  IF ~r.ok \/ ~IsUtf8(r.bytes) \/ HasNul(r.bytes) THEN last.ret = 0
            ELSE last.ret # 0 /\ heap[last.ret].data = r.bytes \o <<0>>

\* decompress_to_string returned the text of a full-length payload
C8_Witness ==
    /\ last.op = "decompress_to_string"
    /\ last.arg > 0
    /\ last.ret # 0
    /\ Len(heap[last.ret].data) = MaxLen + 1

\* the quality of the size brackets
BracketQuality(size) ==
    IF size <= 1024 THEN 4
    ELSE IF size <= 10240 THEN 6
    ELSE IF size <= 102400 THEN 8
    ELSE 10

\* C9: get_recommended_quality returns the quality of the size's bracket, is
\* non-decreasing in the size and stays within 0..11.
C9_RecommendedQuality ==
    adv.fn = "get_recommended_quality"
        => /\ adv.result = BracketQuality(adv.size)
           /\ adv.result2 = BracketQuality(adv.size2)
           /\ adv.size <= adv.size2 => adv.result <= adv.result2
           /\ adv.result \in 0..11

\* the two sizes straddle the first bracket edge
C9_Witness ==
    /\ adv.fn = "get_recommended_quality"
    /\ adv.size = 1024
    /\ adv.size2 = 1025
    /\ adv.result = 4
    /\ adv.result2 = 6

\* tenths of the ratio of a quality bracket
RatioTenths(q) == IF q <= 3 THEN 7 ELSE IF q <= 6 THEN 5 ELSE IF q <= 9 THEN 4 ELSE 3

RECURSIVE Pow2AtMost(_)
Pow2AtMost(v) == IF v <= 1 THEN 1 ELSE 2 * Pow2AtMost(v \div 2)

\* the sizes whose exact product with 0.7 is a whole number v that lies in
\* the top eighth of its binade: there the double product falls below v
RoundsBelow(n) ==
    /\ n % 10 = 0
    /\ n > 0
    /\ 4 * ((7 * n) \div 10) > 7 * Pow2AtMost((7 * n) \div 10)

\* C10 as stated: the estimate is n times the bracket's ratio, truncated; it is
\* at most n, 0 for n = 0, and 500 for (1000, 6).
C10_EstimateExact ==
    adv.fn = "estimate_compressed_size"
        => /\ adv.result = (adv.size * RatioTenths(adv.quality)) \div 10
           /\ adv.result <= adv.size
           /\ adv.size = 0 => adv.result = 0
           /\ (adv.size = 1000 /\ adv.quality = 6) => adv.result = 500

\* C10 amended: the estimate is the double-precision product truncated, which
\* is the exact truncated product except in the 0.7 bracket at the sizes of
\* RoundsBelow, where it is one less.
C10_EstimateF64 ==
    adv.fn = "estimate_compressed_size"
        => /\ adv.result = (adv.size * RatioTenths(adv.quality)) \div 10
                              - (IF adv.quality <= 3 /\ RoundsBelow(adv.size) THEN 1 ELSE 0)
           /\ adv.result <= adv.size
           /\ adv.size = 0 => adv.result = 0
           /\ (adv.size = 1000 /\ adv.quality = 6) => adv.result = 500

\* the estimate of 90 bytes at quality 0 has been computed
C10_Witness ==
    /\ adv.fn = "estimate_compressed_size"
    /\ adv.size = 90
    /\ adv.quality = 0
    /\ adv.result = 62

=============================================================================
